---- MODULE Spec2Model ----
(***************************************************************************)
(* FTE baseload planner: the pipeline simulation engine of src/model.py.   *)
(*                                                                         *)
(* A behaviour is a caller's calls of run_model(cfg): the configuration is *)
(* drawn in Init, RunBegin computes the project volume and the month       *)
(* index, the stage loop of _run_archetype is taken one iteration per      *)
(* step, RunEnd returns the monthly table, BuildAnnualSummary and          *)
(* SteadyState aggregate it, and Rerun calls run_model again.              *)
(*                                                                         *)
(* Numbers: the code computes in binary floating point.  The model         *)
(* computes in exact rationals <<n, d>> (d > 0, lowest terms); the inputs  *)
(* are chosen so that every intermediate value fits TLC's 32-bit integers. *)
(* Months: a month-start timestamp is the integer year * 12 + (month - 1), *)
(* pd.DateOffset(months = k) is + k, and a series over the month index is  *)
(* a function from the index (an interval of such integers).               *)
(* Sequences are 1-based: stage i of the code is stage i + 1 here.         *)
(***************************************************************************)
EXTENDS Integers, Sequences, FiniteSets, TLC

VARIABLES cfg, pc, total_proj, idx, utilization, records,
          ai, si, prev_completions, trace, annual, steady, prior,
          ed, sync_call

vars == <<cfg, pc, total_proj, idx, utilization, records,
          ai, si, prev_completions, trace, annual, steady, prior,
          ed, sync_call>>

----------------------------------------------------------------------------
(* Exact rational arithmetic standing for the code's float arithmetic.     *)

Abs(x) == IF x < 0 THEN -x ELSE x

RECURSIVE Gcd(_, _)
Gcd(a, b) == IF b = 0 THEN a ELSE Gcd(b, a % b)

\* n / d in lowest terms, d > 0.
Rat(n, d) ==
    IF n = 0 THEN <<0, 1>>
    ELSE LET g == Gcd(Abs(n), d) IN <<n \div g, d \div g>>

R(n) == <<n, 1>>
Zero == <<0, 1>>
One == <<1, 1>>

Lcm(a, b) == (a \div Gcd(a, b)) * b

RAdd(a, b) ==
    LET l == Lcm(a[2], b[2])
    IN Rat(a[1] * (l \div a[2]) + b[1] * (l \div b[2]), l)

RNeg(a) == <<-a[1], a[2]>>

RSub(a, b) == RAdd(a, RNeg(b))

RMul(a, b) ==
    IF a[1] = 0 \/ b[1] = 0 THEN Zero
    ELSE LET g1 == Gcd(Abs(a[1]), b[2])
             g2 == Gcd(Abs(b[1]), a[2])
         IN <<(a[1] \div g1) * (b[1] \div g2), (a[2] \div g2) * (b[2] \div g1)>>

\* a / b for b # 0.
RDiv(a, b) ==
    IF b[1] > 0 THEN RMul(a, <<b[2], b[1]>>)
    ELSE RMul(a, <<-b[2], -b[1]>>)

\* a < b, by integer parts and then the reciprocals of the fractional parts
\* (no cross product, which would leave the integer range).
RECURSIVE RLt(_, _)
RLt(a, b) ==
    LET qa == a[1] \div a[2]
        qb == b[1] \div b[2]
        ra == a[1] % a[2]
        rb == b[1] % b[2]
    IN IF qa # qb THEN qa < qb
       ELSE IF rb = 0 THEN FALSE
       ELSE IF ra = 0 THEN TRUE
       ELSE RLt(<<b[2], rb>>, <<a[2], ra>>)

RLe(a, b) == ~RLt(b, a)

RMax(a, b) == IF RLt(a, b) THEN b ELSE a

RMin(a, b) == IF RLt(b, a) THEN b ELSE a

Max2(a, b) == IF a < b THEN b ELSE a

\* The epsilon 1e-9 below which a quantity is treated as negligible.
EpsDen == 1000000000
Eps == <<1, EpsDen>>

\* The floor 0.01 of the utilization divisor.
UtilFloorDen == 100
UtilFloor == <<1, UtilFloorDen>>

----------------------------------------------------------------------------
(* Months and series.                                                      *)

Ts(y, m) == y * 12 + (m - 1)
YearOf(t) == t \div 12
MonthOf(t) == (t % 12) + 1

\* pd.Series(0.0, index=idx)
ZeroSeries(index) == [t \in index |-> Zero]

\* dict.get(key, 0.0)
Get(d, key) == IF key \in DOMAIN d THEN d[key] ELSE Zero

First(index) == CHOOSE t \in index : \A u \in index : t <= u

\* The sum of the series f over the months lo .. hi that are in S.
RECURSIVE SumRange(_, _, _, _)
SumRange(f, S, lo, hi) ==
    IF lo > hi THEN Zero
    ELSE IF lo = hi THEN (IF lo \in S THEN f[lo] ELSE Zero)
    ELSE LET mid == (lo + hi) \div 2
         IN RAdd(SumRange(f, S, lo, mid), SumRange(f, S, mid + 1, hi))

----------------------------------------------------------------------------
(* Cost weighting and budget-to-volume conversion.                         *)

available_budget(c) == RMul(c.total_budget_m, RSub(One, c.overhead_pct))

\* Variant: the later stages' cost is added without the conversion rate.
RECURSIVE expected_cost_unweighted(_, _, _, _)
expected_cost_unweighted(arch, stages, conv_rates, start_idx) ==
    IF start_idx > Len(stages) THEN Zero
    ELSE LET sname == stages[start_idx] IN
         IF sname \notin DOMAIN arch.stages THEN Zero
         ELSE LET cost == arch.stages[sname].cost_millions
                  conv == Get(conv_rates, sname)
              IN IF start_idx < Len(stages) /\ RLt(Zero, conv)
                 THEN RAdd(cost, expected_cost_unweighted(arch, stages,
                                     conv_rates, start_idx + 1))
                 ELSE cost

RECURSIVE expected_cost_from_stage(_, _, _, _)
expected_cost_from_stage(arch, stages, conv_rates, start_idx) ==
    IF start_idx > Len(stages) THEN Zero
    ELSE LET sname == stages[start_idx] IN
         IF sname \notin DOMAIN arch.stages THEN Zero
         ELSE LET cost == arch.stages[sname].cost_millions
                  conv == Get(conv_rates, sname)
              IN IF start_idx < Len(stages) /\ RLt(Zero, conv)
                 THEN RAdd(cost, RMul(conv,
                          expected_cost_from_stage(arch, stages, conv_rates,
                                                   start_idx + 1)))
                 ELSE cost

\* Variant: an entry stage is weighted with its own cost only, not with the
\* expected cost of the stages a project may convert into.
RECURSIVE arch_cost_entry_only(_, _, _)
arch_cost_entry_only(c, arch, i) ==
    IF i > Len(c.pipeline_stages) THEN Zero
    ELSE LET sname == c.pipeline_stages[i]
             mix == Get(c.stage_mix, sname)
             term == IF RLt(Zero, mix) /\ sname \in DOMAIN arch.stages
                     THEN RMul(mix, arch.stages[sname].cost_millions)
                     ELSE Zero
         IN RAdd(term, arch_cost_entry_only(c, arch, i + 1))

\* The inner loop of _weighted_cost_per_project: arch_cost after stages i..
RECURSIVE arch_cost_from(_, _, _)
arch_cost_from(c, arch, i) ==
    IF i > Len(c.pipeline_stages) THEN Zero
    ELSE LET sname == c.pipeline_stages[i]
             mix == Get(c.stage_mix, sname)
             term == IF RLt(Zero, mix) /\ sname \in DOMAIN arch.stages
                     THEN RMul(mix, expected_cost_from_stage(
                              arch, c.pipeline_stages,
                              c.stage_conversion_rates, i))
                     ELSE Zero
         IN RAdd(term, arch_cost_from(c, arch, i + 1))

\* Variant: the archetypes' costs are added without their portfolio shares.
RECURSIVE weighted_cost_no_share(_, _)
weighted_cost_no_share(c, k) ==
    IF k > Len(c.archetypes) THEN Zero
    ELSE RAdd(arch_cost_from(c, c.archetypes[k], 1),
              weighted_cost_no_share(c, k + 1))

\* The outer loop: total over archetypes k..
RECURSIVE weighted_cost_from(_, _)
weighted_cost_from(c, k) ==
    IF k > Len(c.archetypes) THEN Zero
    ELSE RAdd(RMul(c.archetypes[k].portfolio_share,
                   arch_cost_from(c, c.archetypes[k], 1)),
              weighted_cost_from(c, k + 1))

weighted_cost_per_project(c) == weighted_cost_from(c, 1)

\* Variant: the gross budget is divided, overhead not deducted.
projects_per_year_gross(c) ==
    LET budget == c.total_budget_m
        wc == weighted_cost_per_project(c)
    IN IF RLe(wc, Zero) THEN Zero ELSE RDiv(budget, wc)

\* Variant: the budget is divided without the guard on the weighted cost.
projects_per_year_unguarded(c) ==
    RDiv(available_budget(c), weighted_cost_per_project(c))

projects_per_year(c) ==
    LET budget == available_budget(c)
        wc == weighted_cost_per_project(c)
    IN IF RLe(wc, Zero) THEN Zero ELSE RDiv(budget, wc)

----------------------------------------------------------------------------
(* Active stock.                                                           *)

\* Variant: the ramp starts from zero (m / ramp_months).
ramp_factor_from_zero(m, ramp_months) == RMin(One, Rat(m, ramp_months))

\* The ramp factor min(1.0, (m + 1) / ramp_months) at offset m.
ramp_factor(m, ramp_months) == RMin(One, Rat(m + 1, ramp_months))

\* Variant: the window's end month is included (idx <= end_dt).
RECURSIVE active_no_ramp_inclusive(_, _, _, _, _)
active_no_ramp_inclusive(starts, duration, index, dt, active) ==
    IF dt \notin index THEN active
    ELSE LET n == starts[dt] IN
         IF RLt(n, Eps)
         THEN active_no_ramp_inclusive(starts, duration, index, dt + 1, active)
         ELSE active_no_ramp_inclusive(starts, duration, index, dt + 1,
                  [t \in index |->
                      IF t >= dt /\ t <= dt + duration
                      THEN RAdd(active[t], n) ELSE active[t]])

\* The loop over starts.items() of the no-ramp branch, from month dt on.
RECURSIVE active_no_ramp(_, _, _, _, _)
active_no_ramp(starts, duration, index, dt, active) ==
    IF dt \notin index THEN active
    ELSE LET n == starts[dt] IN
         IF RLt(n, Eps)
         THEN active_no_ramp(starts, duration, index, dt + 1, active)
         ELSE active_no_ramp(starts, duration, index, dt + 1,
                  [t \in index |->
                      IF t >= dt /\ t < dt + duration
                      THEN RAdd(active[t], n) ELSE active[t]])

\* Variant: the ramp loop leaves out a cohort's first month (range(1, duration)).
RECURSIVE active_ramp_late(_, _, _, _, _, _)
active_ramp_late(starts, duration, index, ramp_months, dt, active) ==
    IF dt \notin index THEN active
    ELSE LET n == starts[dt] IN
         IF RLt(n, Eps)
         THEN active_ramp_late(starts, duration, index, ramp_months, dt + 1,
                               active)
         ELSE active_ramp_late(starts, duration, index, ramp_months, dt + 1,
                  [t \in index |->
                      IF t - dt \in 1 .. (duration - 1)
                      THEN RAdd(active[t],
                                RMul(n, ramp_factor(t - dt, ramp_months)))
                      ELSE active[t]])

\* The loop over starts.items() of the ramp branch, from month dt on.
RECURSIVE active_ramp(_, _, _, _, _, _)
active_ramp(starts, duration, index, ramp_months, dt, active) ==
    IF dt \notin index THEN active
    ELSE LET n == starts[dt] IN
         IF RLt(n, Eps)
         THEN active_ramp(starts, duration, index, ramp_months, dt + 1, active)
         ELSE active_ramp(starts, duration, index, ramp_months, dt + 1,
                  [t \in index |->
                      IF t - dt \in 0 .. (duration - 1)
                      THEN RAdd(active[t],
                                RMul(n, ramp_factor(t - dt, ramp_months)))
                      ELSE active[t]])

\* Variant: a duration below 1 is taken as one month.
active_stock_min_one(starts, duration, index, ramp_months) ==
    IF ramp_months <= 0
    THEN active_no_ramp(starts, Max2(duration, 1), index, First(index),
                        ZeroSeries(index))
    ELSE active_ramp(starts, Max2(duration, 1), index, ramp_months,
                     First(index), ZeroSeries(index))

\* Variant: a cohort is counted for one month less than its duration.
active_stock_one_short(starts, duration, index, ramp_months) ==
    IF duration <= 0 THEN ZeroSeries(index)
    ELSE IF ramp_months <= 0
         THEN active_no_ramp(starts, duration - 1, index, First(index),
                             ZeroSeries(index))
         ELSE active_ramp(starts, duration - 1, index, ramp_months,
                          First(index), ZeroSeries(index))

active_stock(starts, duration, index, ramp_months) ==
    IF duration <= 0 THEN ZeroSeries(index)
    ELSE IF ramp_months <= 0
         THEN active_no_ramp(starts, duration, index, First(index),
                             ZeroSeries(index))
         ELSE active_ramp(starts, duration, index, ramp_months, First(index),
                          ZeroSeries(index))

----------------------------------------------------------------------------
(* One iteration of the stage loop of _run_archetype.                      *)

\* Variant: the year loop stops before end_year (range(start, end)).
direct_starts_end_excluded(c, arch_projects, sname, index) ==
    LET direct_n == RMul(arch_projects, Get(c.stage_mix, sname))
    IN IF RLt(Zero, direct_n)
       THEN LET monthly_n == RDiv(direct_n, R(Max2(c.intake_spread_months, 1)))
                hits(t) == Cardinality(
                    {p \in (c.start_year .. (c.end_year - 1))
                            \X (1 .. c.intake_spread_months) :
                        Ts(p[1], p[2]) = t})
            IN [t \in index |-> RMul(monthly_n, R(hits(t)))]
       ELSE ZeroSeries(index)

\* starts after the direct-start loops (lines 128-137).
direct_starts(c, arch_projects, sname, index) ==
    LET direct_n == RMul(arch_projects, Get(c.stage_mix, sname))
    IN IF RLt(Zero, direct_n)
       THEN LET monthly_n == RDiv(direct_n, R(Max2(c.intake_spread_months, 1)))
                hits(t) == Cardinality(
                    {p \in (c.start_year .. c.end_year)
                            \X (1 .. c.intake_spread_months) :
                        Ts(p[1], p[2]) = t})
            IN [t \in index |-> RMul(monthly_n, R(hits(t)))]
       ELSE ZeroSeries(index)

\* Variant: the conversion inflow arrives one month after the completion.
converted_starts_lagged(c, i, starts, prev, index) ==
    IF ~prev.is_none /\ i > 1
    THEN LET conv == Get(c.stage_conversion_rates, c.pipeline_stages[i - 1])
         IN IF RLt(Zero, conv)
            THEN [t \in index |->
                     IF t - 1 \in index
                     THEN RAdd(starts[t], RMul(prev.s[t - 1], conv))
                     ELSE starts[t]]
            ELSE starts
    ELSE starts

\* starts after the conversion inflow is added (lines 139-143).
converted_starts(c, i, starts, prev, index) ==
    IF ~prev.is_none /\ i > 1
    THEN LET conv == Get(c.stage_conversion_rates, c.pipeline_stages[i - 1])
         IN IF RLt(Zero, conv)
            THEN [t \in index |-> RAdd(starts[t], RMul(prev.s[t], conv))]
            ELSE starts
    ELSE starts

\* Variant: a cohort is counted as completed in its last active month.
RECURSIVE completions_last_month(_, _, _, _, _)
completions_last_month(starts, dur, index, dt, comp) ==
    IF dt \notin index THEN comp
    ELSE LET n == starts[dt]
             comp_dt == dt + dur - 1
         IN IF RLt(n, Eps) \/ comp_dt \notin index
            THEN completions_last_month(starts, dur, index, dt + 1, comp)
            ELSE completions_last_month(starts, dur, index, dt + 1,
                     [comp EXCEPT ![comp_dt] = RAdd(@, n)])

\* Variant: a stage of duration below 1 records no completion (a longer one
\* completes at dt + dur: the last month of a stage one month longer).
completions_positive_duration(starts, dur, index, dt, comp) ==
    IF dur <= 0 THEN comp
    ELSE completions_last_month(starts, dur + 1, index, dt, comp)

\* this_completions (lines 147-153), the loop from month dt on.
RECURSIVE completions_from(_, _, _, _, _)
completions_from(starts, dur, index, dt, comp) ==
    IF dt \notin index THEN comp
    ELSE LET n == starts[dt]
             comp_dt == dt + dur
         IN IF RLt(n, Eps) \/ comp_dt \notin index
            THEN completions_from(starts, dur, index, dt + 1, comp)
            ELSE completions_from(starts, dur, index, dt + 1,
                     [comp EXCEPT ![comp_dt] = RAdd(@, n)])

\* Variant: the FTE are not divided by the utilization.
RECURSIVE emit_records_net(_, _, _, _, _, _, _)
emit_records_net(active, index, dt, aname, sname, sp, util) ==
    IF dt \notin index THEN <<>>
    ELSE LET n == active[dt] IN
         IF RLt(n, Eps)
         THEN emit_records_net(active, index, dt + 1, aname, sname, sp, util)
         ELSE <<[month |-> dt,
                 year |-> YearOf(dt),
                 archetype |-> aname,
                 stage |-> sname,
                 effective_projects |-> n,
                 fte_research |-> RMul(n, sp.fte_research),
                 fte_developer |-> RMul(n, sp.fte_developer),
                 fte_total |-> RMul(n, RAdd(sp.fte_research,
                                            sp.fte_developer))]>>
              \o emit_records_net(active, index, dt + 1, aname, sname, sp, util)

\* Variant: a record is emitted for every month of the index, no epsilon test.
emit_records_unfiltered(active, index, dt, aname, sname, sp, util) ==
    LET months == {t \in index : t >= dt}
        ord(k) == CHOOSE t \in months : Cardinality({u \in months : u < t}) = k - 1
    IN [k \in 1 .. Cardinality(months) |->
           [month |-> ord(k),
            year |-> YearOf(ord(k)),
            archetype |-> aname,
            stage |-> sname,
            effective_projects |-> active[ord(k)],
            fte_research |-> RDiv(RMul(active[ord(k)], sp.fte_research), util),
            fte_developer |-> RDiv(RMul(active[ord(k)], sp.fte_developer), util),
            fte_total |-> RDiv(RMul(active[ord(k)],
                                    RAdd(sp.fte_research, sp.fte_developer)),
                               util)]]

\* The record-emission loop (lines 156-169), from month dt on.
RECURSIVE emit_records(_, _, _, _, _, _, _)
emit_records(active, index, dt, aname, sname, sp, util) ==
    IF dt \notin index THEN <<>>
    ELSE LET n == active[dt] IN
         IF RLt(n, Eps)
         THEN emit_records(active, index, dt + 1, aname, sname, sp, util)
         ELSE <<[month |-> dt,
                 year |-> YearOf(dt),
                 archetype |-> aname,
                 stage |-> sname,
                 effective_projects |-> n,
                 fte_research |-> RDiv(RMul(n, sp.fte_research), util),
                 fte_developer |-> RDiv(RMul(n, sp.fte_developer), util),
                 fte_total |-> RDiv(RMul(n, RAdd(sp.fte_research,
                                                 sp.fte_developer)), util)]>>
              \o emit_records(active, index, dt + 1, aname, sname, sp, util)

\* sum(sp.duration_months for sn, sp in a.stages.items() if sn in stages)
RECURSIVE sum_durations(_, _)
sum_durations(astages, names) ==
    IF names = {} THEN 0
    ELSE LET sn == CHOOSE x \in names : TRUE
         IN astages[sn].duration_months + sum_durations(astages, names \ {sn})

Range(seq) == {seq[k] : k \in 1 .. Len(seq)}

arch_dur(a, stages) == sum_durations(a.stages, DOMAIN a.stages \cap Range(stages))

RECURSIVE tail_from(_, _)
tail_from(c, k) ==
    IF k > Len(c.archetypes) THEN 0
    ELSE Max2(arch_dur(c.archetypes[k], c.pipeline_stages), tail_from(c, k + 1))

\* Variant: the tail is one month shorter than the longest archetype.
tail_months_short(c) == Max2(0, tail_from(c, 1) - 1)

\* Variant: the tail is the last archetype's duration, not the longest.
tail_months_last(c) ==
    IF Len(c.archetypes) = 0 THEN 0
    ELSE Max2(0, arch_dur(c.archetypes[Len(c.archetypes)], c.pipeline_stages))

tail_months(c) == tail_from(c, 1)

\* Variant: the index ends in December of end_year, with no tail.
month_index_no_tail(c) == Ts(c.start_year, 1) .. Ts(c.end_year, 12)

month_index(c) == Ts(c.start_year, 1) .. (Ts(c.end_year, 12) + tail_months(c))

NoSeries == [is_none |-> TRUE, s |-> <<>>]

\* No call has returned yet.
NoResult == [is_none |-> TRUE, r |-> <<>>]

\* The configuration editor is not open.
NoEdit == <<>>

\* _sync_archetypes has not been called on its own.
NoCall == [n |-> 0, arg |-> <<>>]

\* _run_archetype as one computation: the records it appends for the stages
\* i .. of the pipeline, prev being the completions of the stage before.
RECURSIVE run_archetype_from(_, _, _, _, _, _, _)
run_archetype_from(c, arch, arch_projects, index, util, i, prev) ==
    IF i > Len(c.pipeline_stages) THEN <<>>
    ELSE LET sname == c.pipeline_stages[i] IN
         IF sname \notin DOMAIN arch.stages
         THEN run_archetype_from(c, arch, arch_projects, index, util, i + 1,
                                 NoSeries)
         ELSE LET sp == arch.stages[sname]
                  dur == sp.duration_months
                  direct == direct_starts(c, arch_projects, sname, index)
                  starts == converted_starts(c, i, direct, prev, index)
                  active == active_stock(starts, dur, index, c.ramp_months)
                  this_completions ==
                      completions_from(starts, dur, index, First(index),
                                       ZeroSeries(index))
              IN emit_records(active, index, First(index), arch.name, sname,
                              sp, util)
                 \o run_archetype_from(c, arch, arch_projects, index, util,
                        i + 1, [is_none |-> FALSE, s |-> this_completions])

----------------------------------------------------------------------------
(* Aggregation: the annual summary and the steady state.                   *)

\* Variant: the rows of year yr and of every later year are selected.
year_data_onward(monthly, yr) == SelectSeq(monthly, LAMBDA r : r.year >= yr)

\* monthly[monthly["year"] == yr]
year_data(monthly, yr) == SelectSeq(monthly, LAMBDA r : r.year = yr)

\* The group keys of groupby("month"): the months that have a row.
group_months(data) == {data[k].month : k \in 1 .. Len(data)}

\* The sum of column col over the rows lo .. hi that belong to month mo.
RECURSIVE group_sum(_, _, _, _, _)
group_sum(data, col, mo, lo, hi) ==
    IF lo > hi THEN Zero
    ELSE IF lo = hi
         THEN (IF data[lo].month = mo THEN data[lo][col] ELSE Zero)
    ELSE LET mid == (lo + hi) \div 2
         IN RAdd(group_sum(data, col, mo, lo, mid),
                 group_sum(data, col, mo, mid + 1, hi))

\* groupby("month")[col].sum(): a series over the months that have a row.
monthly_totals(data, col) ==
    [mo \in group_months(data) |-> group_sum(data, col, mo, 1, Len(data))]

Last(index) == CHOOSE t \in index : \A u \in index : u <= t

\* Variant: the mean is taken over the twelve months of the year.
series_mean_12(s) ==
    RDiv(SumRange(s, DOMAIN s, First(DOMAIN s), Last(DOMAIN s)), R(12))

\* Series.mean() of a non-empty series.
series_mean(s) ==
    RDiv(SumRange(s, DOMAIN s, First(DOMAIN s), Last(DOMAIN s)),
         R(Cardinality(DOMAIN s)))

\* Series.min()
series_min(s) ==
    CHOOSE x \in {s[m] : m \in DOMAIN s} : \A m \in DOMAIN s : RLe(x, s[m])

\* Series.max()
series_max(s) ==
    CHOOSE x \in {s[m] : m \in DOMAIN s} : \A m \in DOMAIN s : RLe(s[m], x)

\* Variant: the value is cut after one decimal instead of rounded.
round_1_truncate(x) ==
    LET x10 == RMul(x, R(10)) IN Rat(x10[1] \div x10[2], 10)

\* round(x, 1): the nearest multiple of 0.1, a tie going to the even one.
round_1(x) ==
    LET x10 == RMul(x, R(10))
        q == x10[1] \div x10[2]
        frac == Rat(x10[1] % x10[2], x10[2])
        up == IF RLt(Rat(1, 2), frac) THEN 1
              ELSE IF RLt(frac, Rat(1, 2)) THEN 0
              ELSE q % 2
    IN Rat(q + up, 10)

\* One row of the annual summary (lines 233-258).
annual_row(monthly, yr) ==
    LET yr_data == year_data(monthly, yr) IN
    IF yr_data = <<>>
    THEN [Year |-> yr, avg_monthly_fte |-> Zero, min_monthly_fte |-> Zero,
          max_monthly_fte |-> Zero, avg_research_fte |-> Zero,
          avg_developer_fte |-> Zero]
    ELSE LET total == monthly_totals(yr_data, "fte_total")
             research == monthly_totals(yr_data, "fte_research")
             developer == monthly_totals(yr_data, "fte_developer")
         IN [Year |-> yr,
             avg_monthly_fte |-> round_1(series_mean(total)),
             min_monthly_fte |-> round_1(series_min(total)),
             max_monthly_fte |-> round_1(series_max(total)),
             avg_research_fte |-> round_1(series_mean(research)),
             avg_developer_fte |-> round_1(series_mean(developer))]

\* Variant: a year without rows is left out of the summary.
build_annual_summary_skip_empty(monthly, c) ==
    IF monthly = <<>> THEN <<>>
    ELSE SelectSeq([k \in 1 .. (c.end_year - c.start_year + 1) |->
                       annual_row(monthly, c.start_year + k - 1)],
                   LAMBDA row : year_data(monthly, row.Year) # <<>>)

build_annual_summary(monthly, c) ==
    IF monthly = <<>> THEN <<>>
    ELSE [k \in 1 .. (c.end_year - c.start_year + 1) |->
             annual_row(monthly, c.start_year + k - 1)]

\* Variant: no fallback to the year before end_year.
steady_state_no_fallback(monthly, c) ==
    LET last_year == year_data(monthly, c.end_year)
    IN IF last_year = <<>> THEN <<Zero, Zero, Zero>>
       ELSE LET totals == monthly_totals(last_year, "fte_total")
            IN <<series_mean(totals), series_min(totals), series_max(totals)>>

steady_state(monthly, c) ==
    IF monthly = <<>> THEN <<Zero, Zero, Zero>>
    ELSE LET end_data == year_data(monthly, c.end_year)
             last_year == IF end_data = <<>>
                          THEN year_data(monthly, c.end_year - 1)
                          ELSE end_data
         IN IF last_year = <<>> THEN <<Zero, Zero, Zero>>
            ELSE LET totals == monthly_totals(last_year, "fte_total")
                 IN <<series_mean(totals), series_min(totals),
                      series_max(totals)>>

----------------------------------------------------------------------------
(* Configurations.                                                         *)

\* Bounds of the enumerated configurations.
MaxDur == 2
MaxRamp == 2
MaxYears == 2

\* ModelConfig.start_year's default.
StartYear == 2026

SP(d, c, r, v) ==
    [duration_months |-> d, cost_millions |-> c,
     fte_research |-> r, fte_developer |-> v]

Arch(n, share, st) == [name |-> n, portfolio_share |-> share, stages |-> st]

Cfg(budget, ovh, ny, stages, mix, conv, intake, util, ramp, archs) ==
    [total_budget_m |-> budget, overhead_pct |-> ovh,
     start_year |-> StartYear, end_year |-> StartYear + ny - 1,
     pipeline_stages |-> stages, stage_mix |-> mix,
     stage_conversion_rates |-> conv, intake_spread_months |-> intake,
     utilization_rate |-> util, ramp_months |-> ramp, archetypes |-> archs]

\* f restricted to the keys in S.
Restrict(f, S) == [k \in (DOMAIN f) \cap S |-> f[k]]

\* The two-stage scenario of the specification's testable properties.
ScenarioCfg ==
    Cfg(R(100), Zero, 1, <<"Early", "Late">>,
        ("Early" :> Rat(1, 5)) @@ ("Late" :> Rat(4, 5)),
        ("Early" :> Rat(1, 2)), 1, One, 0,
        <<Arch("A", One, ("Early" :> SP(6, R(5), One, Zero))
                      @@ ("Late" :> SP(6, R(10), Zero, One)))>>)

\* Two stages, every duration, ramp, intake window and number of years.
GridCfgs ==
    {Cfg(R(100), Zero, ny, <<"Early", "Late">>,
         ("Early" :> Rat(1, 5)) @@ ("Late" :> Rat(4, 5)),
         ("Early" :> Rat(1, 2)), intake, One, ramp,
         <<Arch("A", One, ("Early" :> SP(d1, R(5), One, Zero))
                       @@ ("Late" :> SP(d2, R(10), Zero, One)))>>) :
        d1 \in 1 .. MaxDur, d2 \in 1 .. MaxDur, ramp \in 0 .. MaxRamp,
        intake \in {1, 2, 12}, ny \in 1 .. MaxYears}

ChainStages == <<"Early", "Late", "Final">>

ChainParams ==
    ("Early" :> SP(1, R(5), One, Zero))
    @@ ("Late" :> SP(2, R(10), Zero, One))
    @@ ("Final" :> SP(1, R(20), One, One))

OtherParams ==
    ("Early" :> SP(2, R(4), One, One))
    @@ ("Late" :> SP(1, R(8), R(2), Zero))
    @@ ("Final" :> SP(2, R(16), Zero, R(2)))

MixProfiles ==
    {("Early" :> Rat(1, 5)) @@ ("Late" :> Rat(4, 5)),
     ("Early" :> One) @@ ("Late" :> Zero) @@ ("Final" :> Zero),
     ("Early" :> Rat(1, 2)) @@ ("Late" :> Rat(1, 4)) @@ ("Final" :> Rat(1, 4))}

ConvProfiles ==
    {("Early" :> Rat(1, 2)) @@ ("Late" :> Rat(1, 2)),
     ("Early" :> One) @@ ("Late" :> Zero),
     ("Late" :> One)}

\* Up to three stages; archetypes covering any subset of them (gaps included).
ChainCfgs ==
    {Cfg(R(100), Zero, 1, SubSeq(ChainStages, 1, ns), mix, conv, 2, One, ramp,
         IF two
         THEN <<Arch("A", Rat(1, 2), Restrict(ChainParams, cover)),
                Arch("B", Rat(1, 2), OtherParams)>>
         ELSE <<Arch("A", One, Restrict(ChainParams, cover))>>) :
        ns \in 1 .. 3, cover \in SUBSET {"Early", "Late", "Final"},
        mix \in MixProfiles, conv \in ConvProfiles, ramp \in {0, 2},
        two \in BOOLEAN}

\* Degenerate volumes: no archetype, zero share, full overhead, non-positive
\* cost, zero duration, low utilization.
DegenerateCfgs ==
    {Cfg(R(100), ovh, 1, <<"Early", "Late">>, mix,
         ("Early" :> Rat(1, 2)), 2, util, 0, archs) :
        ovh \in {Zero, Rat(3, 10), One},
        mix \in {("Early" :> Rat(1, 5)) @@ ("Late" :> Rat(4, 5)),
                 ("Early" :> Zero) @@ ("Late" :> Zero)},
        util \in {One, Rat(1, 2), Zero},
        archs \in {<<>>} \cup
            {<<Arch("A", share, ("Early" :> SP(d, cost, One, Zero))
                             @@ ("Late" :> SP(1, R(10), Zero, One)))>> :
                share \in {Zero, One}, d \in {0, 1},
                cost \in {R(5), R(-45), R(-50)}}}

\* Volumes around the epsilon: a budget of 1 against a cost of 10^9 per project.
TinyCfgs ==
    {Cfg(One, Zero, 1, <<"Early", "Late">>,
         ("Early" :> One) @@ ("Late" :> Zero),
         ("Early" :> One), intake, One, ramp,
         <<Arch("A", One, ("Early" :> SP(d1, R(500000000), R(6), Zero))
                       @@ ("Late" :> SP(1, R(500000000), Zero, R(6))))>>) :
        intake \in {1, 2}, ramp \in {0, 1}, d1 \in 1 .. 2}

\* One stage taking the whole mix; one archetype, or two of different
\* durations and costs; a volume of 10^-9 projects per year as well.
SingleCfgs ==
    {Cfg(R(100), Zero, ny, <<"Early">>, ("Early" :> One), <<>>, intake, One,
         ramp,
         IF two
         THEN <<Arch("A", Rat(1, 4), ("Early" :> SP(d, R(5), One, One))),
                Arch("B", Rat(3, 4), Restrict(OtherParams, {"Early"}))>>
         ELSE <<Arch("A", One, ("Early" :> SP(d, R(5), One, One)))>>) :
        d \in 1 .. MaxDur, ramp \in 0 .. MaxRamp, intake \in {1, 2, 12},
        ny \in 1 .. MaxYears, two \in BOOLEAN}
    \cup
    {Cfg(One, Zero, 1, <<"Early">>, ("Early" :> One), <<>>, ir[1], One, ir[2],
         <<Arch("A", One, ("Early" :> SP(d, R(1000000000), One, One)))>>) :
        ir \in {<<1, 0>>, <<1, 2>>, <<2, 0>>}, d \in 1 .. 2}

\* Three stages at a volume of 10^-9 projects per year, all entering at the
\* first stage; its conversion rate is 0 (with or without ramp) or 1/2, which
\* puts the second stage's starts below the epsilon; the second stage lasts
\* zero months or one.
TinyChainCfgs ==
    {Cfg(One, Zero, 1, ChainStages,
         ("Early" :> One) @@ ("Late" :> Zero) @@ ("Final" :> Zero),
         ("Early" :> cr[1]) @@ ("Late" :> One), 1, One, cr[2],
         <<Arch("A", One,
                ("Early" :> SP(d1, IF cr[1] = Zero THEN R(1000000000)
                                   ELSE R(500000000), R(6), Zero))
                @@ ("Late" :> SP(d2, R(500000000), Zero, R(6)))
                @@ ("Final" :> SP(1, R(500000000), R(6), R(6))))>>) :
        cr \in {<<Zero, 0>>, <<Zero, 2>>, <<Rat(1, 2), 0>>},
        d1 \in 1 .. 2, d2 \in 0 .. 1}

\* A stage whose duration is below 1, with and without ramp.
ZeroDurCfgs ==
    {Cfg(R(100), Zero, 1, <<"Early", "Late">>,
         ("Early" :> Rat(1, 5)) @@ ("Late" :> Rat(4, 5)),
         ("Early" :> Rat(1, 2)), intake, One, ramp,
         <<Arch("A", One, ("Early" :> SP(d1, R(5), One, Zero))
                       @@ ("Late" :> SP(d2, R(10), Zero, One)))>>) :
        d1 \in {-1, 0, 1}, d2 \in {0, 1}, intake \in {1, 2},
        ramp \in 0 .. MaxRamp}

\* Two archetypes whose portfolio shares are both zero.
ZeroShareCfgs ==
    {Cfg(R(100), ovh, ny, ChainStages,
         ("Early" :> Rat(1, 2)) @@ ("Late" :> Rat(1, 4)) @@ ("Final" :> Rat(1, 4)),
         ("Early" :> Rat(1, 2)) @@ ("Late" :> Rat(1, 2)), 2, One, 0,
         <<Arch("A", Zero, ChainParams), Arch("B", Zero, OtherParams)>>) :
        ovh \in {Zero, One}, ny \in 1 .. MaxYears}

\* Two archetypes starting projects in every month of the year, one of them
\* with longer stages, in either order.
PairCfgs ==
    {Cfg(R(100), Zero, ny, <<"Early", "Late">>,
         ("Early" :> Rat(1, 5)) @@ ("Late" :> Rat(4, 5)),
         ("Early" :> Rat(1, 2)), 12, One, ramp,
         LET short == Arch("A", Rat(1, 2),
                           ("Early" :> SP(1, R(5), One, Zero))
                           @@ ("Late" :> SP(1, R(10), Zero, One)))
             long == Arch("B", Rat(1, 2),
                          ("Early" :> SP(d, R(4), One, One))
                          @@ ("Late" :> SP(2, R(8), R(2), Zero)))
         IN IF long_first THEN <<long, short>> ELSE <<short, long>>) :
        d \in 1 .. MaxDur, ramp \in {0, 2}, ny \in 1 .. MaxYears,
        long_first \in BOOLEAN}

Configs ==
    {ScenarioCfg} \cup GridCfgs \cup ChainCfgs \cup DegenerateCfgs \cup TinyCfgs
    \cup SingleCfgs \cup ZeroDurCfgs \cup ZeroShareCfgs \cup PairCfgs
    \cup TinyChainCfgs

\* A row of the monthly table.
Row(month, aname, sname, n, fte_r, fte_d) ==
    [month |-> month, year |-> YearOf(month), archetype |-> aname,
     stage |-> sname, effective_projects |-> n, fte_research |-> fte_r,
     fte_developer |-> fte_d, fte_total |-> RAdd(fte_r, fte_d)]

\* Rows of a monthly table over the years 2026 to 2028.
TableRows ==
    <<Row(Ts(2026, 1), "A", "Early", One, Rat(1, 4), Zero),
      Row(Ts(2026, 1), "A", "Late", R(2), Zero, Rat(3, 20)),
      Row(Ts(2026, 3), "A", "Early", One, One, Rat(1, 3)),
      Row(Ts(2027, 2), "A", "Early", One, Rat(7, 20), Zero),
      Row(Ts(2027, 2), "B", "Early", R(3), Rat(2, 3), R(2)),
      Row(Ts(2027, 11), "A", "Late", One, Zero, Rat(17, 100)),
      Row(Ts(2028, 1), "A", "Late", One, Zero, One)>>

\* The monthly tables made of some of these rows, in their order.
Tables ==
    {SelectSeq(TableRows, LAMBDA r : r \in S) : S \in SUBSET Range(TableRows)}

\* The configurations the tables are aggregated under: one or two years.
TableCfgs ==
    {Cfg(R(100), Zero, ny, <<"Early", "Late">>,
         ("Early" :> Rat(1, 5)) @@ ("Late" :> Rat(4, 5)),
         ("Early" :> Rat(1, 2)), 1, One, 0,
         <<Arch("A", Rat(1, 2), ("Early" :> SP(1, R(5), One, Zero))
                             @@ ("Late" :> SP(1, R(10), Zero, One))),
           Arch("B", Rat(1, 2), ("Early" :> SP(1, R(5), One, Zero)))>>) :
        ny \in 1 .. 2}

----------------------------------------------------------------------------
(* The run.                                                                *)

Init ==
    /\ cfg \in Configs
    /\ pc = "start"
    /\ total_proj = Zero
    /\ idx = {}
    /\ utilization = One
    /\ records = <<>>
    /\ ai = 1
    /\ si = 1
    /\ prev_completions = NoSeries
    /\ trace = <<>>
    /\ annual = <<>>
    /\ steady = <<Zero, Zero, Zero>>
    /\ prior = NoResult
    /\ ed = NoEdit
    /\ sync_call = NoCall

\* Variant: the record list outlives the call (it is not created afresh).
RunBeginKeep ==
    /\ pc = "start"
    /\ total_proj' = projects_per_year(cfg)
    /\ idx' = month_index(cfg)
    /\ utilization' = RMax(cfg.utilization_rate, UtilFloor)
    /\ ai' = 1
    /\ si' = 1
    /\ prev_completions' = NoSeries
    /\ pc' = "loop"
    /\ trace' = <<>>
    /\ UNCHANGED <<cfg, records, annual, steady, prior,
                   ed, sync_call>>

\* run, lines 177-193: volume, month index, utilization floor.
RunBegin ==
    /\ pc = "start"
    /\ total_proj' = projects_per_year(cfg)
    /\ idx' = month_index(cfg)
    /\ utilization' = RMax(cfg.utilization_rate, UtilFloor)
    /\ records' = <<>>
    /\ ai' = 1
    /\ si' = 1
    /\ prev_completions' = NoSeries
    /\ pc' = "loop"
    /\ trace' = <<>>
    /\ UNCHANGED <<cfg, annual, steady, prior,
                   ed, sync_call>>

InLoop == pc = "loop" /\ ai <= Len(cfg.archetypes)

CurArch == cfg.archetypes[ai]

CurStage == cfg.pipeline_stages[si]

\* Variant: an undefined stage is skipped without clearing prev_completions.
StageSkipKeep ==
    /\ InLoop
    /\ si <= Len(cfg.pipeline_stages)
    /\ CurStage \notin DOMAIN CurArch.stages
    /\ si' = si + 1
    /\ UNCHANGED <<cfg, pc, total_proj, idx, utilization, records, ai, trace,
                   prev_completions, annual, steady, prior,
                   ed, sync_call>>

\* _run_archetype, lines 119-121: the archetype does not define the stage.
StageSkip ==
    /\ InLoop
    /\ si <= Len(cfg.pipeline_stages)
    /\ CurStage \notin DOMAIN CurArch.stages
    /\ prev_completions' = NoSeries
    /\ si' = si + 1
    /\ UNCHANGED <<cfg, pc, total_proj, idx, utilization, records, ai, trace,
                   annual, steady, prior,
                   ed, sync_call>>

\* Variant: only the direct starts of a stage are counted as completions.
StageRunDirectCompletions ==
    /\ InLoop
    /\ si <= Len(cfg.pipeline_stages)
    /\ CurStage \in DOMAIN CurArch.stages
    /\ LET sp == CurArch.stages[CurStage]
           dur == sp.duration_months
           arch_projects == RMul(total_proj, CurArch.portfolio_share)
           direct == direct_starts(cfg, arch_projects, CurStage, idx)
           starts == converted_starts(cfg, si, direct, prev_completions, idx)
           active == active_stock(starts, dur, idx, cfg.ramp_months)
           this_completions ==
               completions_from(direct, dur, idx, First(idx), ZeroSeries(idx))
       IN /\ prev_completions' = [is_none |-> FALSE, s |-> this_completions]
          /\ records' = records \o emit_records(active, idx, First(idx),
                                       CurArch.name, CurStage, sp, utilization)
          /\ trace' = Append(trace,
                         [a |-> ai, i |-> si, direct |-> direct,
                          starts |-> starts, active |-> active,
                          completions |-> this_completions])
    /\ si' = si + 1
    /\ UNCHANGED <<cfg, pc, total_proj, idx, utilization, ai,
                   annual, steady, prior,
                   ed, sync_call>>

\* _run_archetype, lines 123-169: one defined stage.
StageRun ==
    /\ InLoop
    /\ si <= Len(cfg.pipeline_stages)
    /\ CurStage \in DOMAIN CurArch.stages
    /\ LET sp == CurArch.stages[CurStage]
           dur == sp.duration_months
           arch_projects == RMul(total_proj, CurArch.portfolio_share)
           direct == direct_starts(cfg, arch_projects, CurStage, idx)
           starts == converted_starts(cfg, si, direct, prev_completions, idx)
           active == active_stock(starts, dur, idx, cfg.ramp_months)
           this_completions ==
               completions_from(starts, dur, idx, First(idx), ZeroSeries(idx))
       IN /\ prev_completions' = [is_none |-> FALSE, s |-> this_completions]
          /\ records' = records \o emit_records(active, idx, First(idx),
                                       CurArch.name, CurStage, sp, utilization)
          /\ trace' = Append(trace,
                         [a |-> ai, i |-> si, direct |-> direct,
                          starts |-> starts, active |-> active,
                          completions |-> this_completions])
    /\ si' = si + 1
    /\ UNCHANGED <<cfg, pc, total_proj, idx, utilization, ai,
                   annual, steady, prior,
                   ed, sync_call>>

\* _run_archetype returns; run, line 195, takes the next archetype.
ArchetypeEnd ==
    /\ InLoop
    /\ si > Len(cfg.pipeline_stages)
    /\ ai' = ai + 1
    /\ si' = 1
    /\ prev_completions' = NoSeries
    /\ UNCHANGED <<cfg, pc, total_proj, idx, utilization, records, trace,
                   annual, steady, prior,
                   ed, sync_call>>

\* run, lines 199-206: the monthly table is returned.
RunEnd ==
    /\ pc = "loop"
    /\ ai > Len(cfg.archetypes)
    /\ pc' = "done"
    /\ UNCHANGED <<cfg, total_proj, idx, utilization, records, ai, si,
                   prev_completions, trace, annual, steady, prior,
                   ed, sync_call>>

\* run_model, line 213: the annual summary of the monthly table.
BuildAnnualSummary ==
    /\ pc = "done"
    /\ annual' = build_annual_summary(records, cfg)
    /\ pc' = "summary"
    /\ UNCHANGED <<cfg, total_proj, idx, utilization, records, ai, si,
                   prev_completions, trace, steady, prior,
                   ed, sync_call>>

\* run_model, lines 215-224: the steady state; the result is returned.
SteadyState ==
    /\ pc = "summary"
    /\ steady' = steady_state(records, cfg)
    /\ pc' = "returned"
    /\ UNCHANGED <<cfg, total_proj, idx, utilization, records, ai, si,
                   prev_completions, trace, annual, prior,
                   ed, sync_call>>

\* The ModelResult of the call that has returned.
Result ==
    [monthly |-> records, annual_summary |-> annual, steady_state |-> steady,
     projects_per_year |-> total_proj]

\* The caller keeps the result and calls run_model again on the same
\* configuration object.
Rerun ==
    /\ pc = "returned"
    /\ prior' = [is_none |-> FALSE, r |-> Result]
    /\ pc' = "start"
    /\ UNCHANGED <<cfg, total_proj, idx, utilization, records, ai, si,
                   prev_completions, trace, annual, steady,
                   ed, sync_call>>

Next ==
    \/ RunBegin \/ StageSkip \/ StageRun \/ ArchetypeEnd \/ RunEnd
    \/ BuildAnnualSummary \/ SteadyState \/ Rerun

Spec == Init /\ [][Next]_vars

\* _build_annual_summary and _steady_state called on a given monthly table.
TableInit ==
    /\ cfg \in TableCfgs
    /\ pc = "done"
    /\ total_proj = Zero
    /\ idx = {}
    /\ utilization = One
    /\ records \in Tables
    /\ ai = 1
    /\ si = 1
    /\ prev_completions = NoSeries
    /\ trace = <<>>
    /\ annual = <<>>
    /\ steady = <<Zero, Zero, Zero>>
    /\ prior = NoResult
    /\ ed = NoEdit
    /\ sync_call = NoCall

AggInit == Init \/ TableInit

\* The runs of Spec, and the aggregation of the given tables.
AggSpec == AggInit /\ [][Next]_vars

----------------------------------------------------------------------------
(* The configuration editor of src/app.py.  The editor's configuration is  *)
(* the variable ed; a Python dict is a sequence of <<key, value>> pairs    *)
(* with distinct keys, in insertion order.                                 *)

\* Bound of the editor: the longest stage list that "Add stage" is offered for.
MaxStages == 3

DictKeys(d) == {d[j][1] : j \in 1 .. Len(d)}

\* d[k], for a key k of d.
DictGet(d, k) == LET j == CHOOSE i \in 1 .. Len(d) : d[i][1] = k IN d[j][2]

\* d.get(k, default)
DictGetOr(d, k, default) == IF k \in DictKeys(d) THEN DictGet(d, k) ELSE default

\* d[k] = v: in place for a key of d, at the end for a new key.
DictSet(d, k, v) ==
    IF k \in DictKeys(d)
    THEN [j \in 1 .. Len(d) |-> IF d[j][1] = k THEN <<k, v>> ELSE d[j]]
    ELSE Append(d, <<k, v>>)

\* d.pop(k, None), del d[k]
DictPop(d, k) == SelectSeq(d, LAMBDA p : p[1] # k)

\* d.setdefault(k, v)
DictSetDefault(d, k, v) == IF k \in DictKeys(d) THEN d ELSE Append(d, <<k, v>>)

\* StageParams(9, 8.0, 3.0, 2.0)
DefaultParams == SP(9, R(8), R(3), R(2))

\* _sync_archetypes, lines 253-255: a stage the archetype lacks gets the
\* default parameters; the loop from stage i on.
RECURSIVE add_missing(_, _, _)
add_missing(stages, pipeline, i) ==
    IF i > Len(pipeline) THEN stages
    ELSE add_missing(DictSetDefault(stages, pipeline[i], DefaultParams),
                     pipeline, i + 1)

\* _sync_archetypes, lines 256-258: the keys not in the pipeline are deleted.
drop_extra(stages, pipeline) ==
    SelectSeq(stages, LAMBDA p : p[1] \in {pipeline[j] : j \in 1 .. Len(pipeline)})

\* _sync_archetypes, line 259: the dict comprehension over the pipeline, from
\* stage i on.
RECURSIVE ordered_from(_, _, _, _)
ordered_from(stages, pipeline, i, acc) ==
    IF i > Len(pipeline) THEN acc
    ELSE ordered_from(stages, pipeline, i + 1,
             IF pipeline[i] \in DictKeys(stages)
             THEN DictSet(acc, pipeline[i], DictGet(stages, pipeline[i]))
             ELSE acc)

\* Variant: the stages are not put into pipeline order (no line 259).
sync_stages_unordered(stages, pipeline) ==
    drop_extra(add_missing(stages, pipeline, 1), pipeline)

\* The body of the archetype loop of _sync_archetypes.
sync_stages(stages, pipeline) ==
    ordered_from(drop_extra(add_missing(stages, pipeline, 1), pipeline),
                 pipeline, 1, <<>>)

\* _sync_archetypes(cfg): the configuration it leaves.
sync_archetypes(c) ==
    [c EXCEPT !.archetypes =
        [k \in 1 .. Len(c.archetypes) |->
            [c.archetypes[k] EXCEPT
                !.stages = sync_stages(c.archetypes[k].stages,
                                       c.pipeline_stages)]]]

\* int(x * 100) of a number input's value, and the value / 100.0 written back.
percent(x) == (x[1] * 100) \div x[2]

from_percent(p) == Rat(p, 100)

\* not new_name.strip()
IsBlank(name) == name \in {"", " "}

\* _page_configure, lines 411-421: stage j is renamed to new_name.
rename_stage(c, j, new_name) ==
    LET old == c.pipeline_stages[j]
        move(d) == IF old \in DictKeys(d)
                   THEN DictSet(DictPop(d, old), new_name, DictGet(d, old))
                   ELSE d
    IN [pipeline_stages |-> [c.pipeline_stages EXCEPT ![j] = new_name],
        stage_mix |-> move(c.stage_mix),
        stage_conversion_rates |-> move(c.stage_conversion_rates),
        archetypes |->
            [k \in 1 .. Len(c.archetypes) |->
                [c.archetypes[k] EXCEPT !.stages = move(c.archetypes[k].stages)]]]

\* _page_configure, lines 384-425: the row of stage j, the name field of
\* stage at holding new_name (at = 0: no name field was changed).
stage_row(c, j, at, new_name) ==
    LET sname == c.pipeline_stages[j]
        alloc == percent(DictGetOr(c.stage_mix, sname, Zero))
        is_terminal == j = Len(c.pipeline_stages)
        conv == percent(DictGetOr(c.stage_conversion_rates, sname, Zero))
        renamed == j = at /\ new_name # sname /\ ~IsBlank(new_name)
        c1 == IF renamed THEN rename_stage(c, j, new_name) ELSE c
        name1 == IF renamed THEN new_name ELSE sname
        c2 == [c1 EXCEPT !.stage_mix = DictSet(@, name1, from_percent(alloc))]
    IN IF is_terminal THEN c2
       ELSE [c2 EXCEPT !.stage_conversion_rates =
                DictSet(@, name1, from_percent(conv))]

\* The loop over the stage rows, from row j on.
RECURSIVE stage_loop(_, _, _, _)
stage_loop(c, j, at, new_name) ==
    IF j > Len(c.pipeline_stages) THEN c
    ELSE stage_loop(stage_row(c, j, at, new_name), j + 1, at, new_name)

\* A run of the page script in which no widget was changed: the stage rows,
\* then _sync_archetypes (line 503).
rerun(c) == sync_archetypes(stage_loop(c, 1, 0, ""))

\* _page_configure, lines 427-433: the stage at position j is removed.
remove_stage(c, j) ==
    LET removed == c.pipeline_stages[j]
    IN [pipeline_stages |->
            [i \in 1 .. (Len(c.pipeline_stages) - 1) |->
                IF i < j THEN c.pipeline_stages[i] ELSE c.pipeline_stages[i + 1]],
        stage_mix |-> DictPop(c.stage_mix, removed),
        stage_conversion_rates |-> DictPop(c.stage_conversion_rates, removed),
        archetypes |->
            [k \in 1 .. Len(c.archetypes) |->
                [c.archetypes[k] EXCEPT
                    !.stages = DictPop(c.archetypes[k].stages, removed)]]]

\* f"Stage {n}"
StageLabel(n) ==
    <<"Stage 1", "Stage 2", "Stage 3", "Stage 4", "Stage 5", "Stage 6">>[n]

\* _page_configure, lines 435-442: a stage is appended.
add_stage(c) ==
    LET new_s == StageLabel(Len(c.pipeline_stages) + 1)
        stages == Append(c.pipeline_stages, new_s)
    IN sync_archetypes(
           [c EXCEPT
               !.pipeline_stages = stages,
               !.stage_mix = DictSet(@, new_s, Zero),
               !.stage_conversion_rates =
                   IF Len(stages) >= 2
                   THEN DictSetDefault(@, stages[Len(stages) - 1], Rat(1, 2))
                   ELSE @])

\* petronas_baseline(), the fields the stage editor works on.
BaselineCfg ==
    [pipeline_stages |-> <<"TRL 1-4", "TRL 5-7">>,
     stage_mix |-> <<<<"TRL 1-4", Rat(1, 5)>>, <<"TRL 5-7", Rat(4, 5)>>>>,
     stage_conversion_rates |-> <<<<"TRL 1-4", Rat(1, 2)>>>>,
     archetypes |->
        <<Arch("Chemistry", Rat(3, 20),
               <<<<"TRL 1-4", SP(7, Rat(13, 2), Rat(7, 2), Rat(3, 2))>>,
                 <<"TRL 5-7", SP(12, Rat(25, 2), Rat(3, 2), Rat(7, 2))>>>>),
          Arch("Process (Hardware)", Rat(7, 10),
               <<<<"TRL 1-4", SP(9, Rat(25, 2), Rat(13, 2), Rat(3, 2))>>,
                 <<"TRL 5-7", SP(15, R(15), Rat(3, 2), Rat(13, 2))>>>>),
          Arch("Algorithm (Software)", Rat(3, 20),
               <<<<"TRL 1-4", SP(6, Rat(17, 4), Rat(1, 2), Rat(1, 2))>>,
                 <<"TRL 5-7", SP(6, Rat(17, 4), Rat(1, 2), Rat(1, 2))>>>>)>>]

\* The names typed into a stage's name field.
TypedNames == {"TRL 1-4", "Pilot", "Stage 3", " "}

\* The variables of the engine, which the editor leaves alone.
run_vars ==
    <<cfg, pc, total_proj, idx, utilization, records, ai, si,
      prev_completions, trace, annual, steady, prior>>

\* The editor is opened on the baseline configuration (lines 244-245).
EditInit ==
    /\ cfg = ScenarioCfg
    /\ pc = "configure"
    /\ total_proj = Zero
    /\ idx = {}
    /\ utilization = One
    /\ records = <<>>
    /\ ai = 1
    /\ si = 1
    /\ prev_completions = NoSeries
    /\ trace = <<>>
    /\ annual = <<>>
    /\ steady = <<Zero, Zero, Zero>>
    /\ prior = NoResult
    /\ ed = BaselineCfg
    /\ sync_call = NoCall

\* A new name is typed into the name field of stage j: the script runs with
\* the rename (lines 411-421) and goes on to _sync_archetypes (line 503).
RenameStage ==
    \E j \in 1 .. Len(ed.pipeline_stages), new_name \in TypedNames :
        /\ pc = "configure"
        /\ new_name # ed.pipeline_stages[j]
        /\ ~IsBlank(new_name)
        /\ ed' = sync_archetypes(stage_loop(ed, 1, j, new_name))
        /\ UNCHANGED <<run_vars, sync_call>>

\* The remove button of stage j, offered when there are two stages or more
\* (line 407), is pressed: the stage is removed after the stage rows and the
\* script is run again (st.rerun()).
RemoveStage ==
    \E j \in 1 .. Len(ed.pipeline_stages) :
        /\ pc = "configure"
        /\ Len(ed.pipeline_stages) > 1
        /\ ed' = rerun(remove_stage(stage_loop(ed, 1, 0, ""), j))
        /\ UNCHANGED <<run_vars, sync_call>>

\* "Add stage" is pressed: the stage is appended after the stage rows and
\* the script is run again.
AddStage ==
    /\ pc = "configure"
    /\ Len(ed.pipeline_stages) < MaxStages
    /\ ed' = rerun(add_stage(stage_loop(ed, 1, 0, "")))
    /\ UNCHANGED <<run_vars, sync_call>>

EditNext == RenameStage \/ RemoveStage \/ AddStage

\* The sessions of the stage editor.
EditSpec == EditInit /\ [][EditNext]_vars

\* The stage names of the configurations _sync_archetypes is called with.
SyncNames == {"Early", "Late", "Final"}

\* The sequences without repetition over the set S.
Arrangements(S) ==
    {q \in UNION {[1 .. n -> S] : n \in 0 .. Cardinality(S)} :
        \A i \in 1 .. Len(q), j \in 1 .. Len(q) : q[i] = q[j] => i = j}

\* The parameter dicts of an archetype: any keys among the stage names and
\* one other name, in any order, the parameters telling the keys apart.
SyncDicts ==
    {[j \in 1 .. Len(q) |->
         <<q[j], SP(Len(q) + j, R(j), One, Zero)>>] :
        q \in Arrangements(SyncNames \cup {"Pilot"})}

\* The configurations _sync_archetypes is called with: any stage list of up
\* to MaxStages names (repetitions included) and two archetypes.
SyncCfgs ==
    {[pipeline_stages |-> pl,
      stage_mix |-> <<>>,
      stage_conversion_rates |-> <<>>,
      archetypes |-> <<Arch("A", Rat(1, 2), d), Arch("B", Rat(1, 2), other)>>] :
        pl \in UNION {[1 .. n -> SyncNames] : n \in 1 .. MaxStages},
        d \in SyncDicts,
        other \in {<<>>, <<<<"Pilot", DefaultParams>>,
                           <<"Late", SP(1, R(10), Zero, One)>>>>}}

\* _sync_archetypes is about to be called on a configuration.
SyncInit ==
    /\ cfg = ScenarioCfg
    /\ pc = "sync"
    /\ total_proj = Zero
    /\ idx = {}
    /\ utilization = One
    /\ records = <<>>
    /\ ai = 1
    /\ si = 1
    /\ prev_completions = NoSeries
    /\ trace = <<>>
    /\ annual = <<>>
    /\ steady = <<Zero, Zero, Zero>>
    /\ prior = NoResult
    /\ ed \in SyncCfgs
    /\ sync_call = [n |-> 0, arg |-> ed]

\* _sync_archetypes(cfg) is called, a first and a second time.
SyncArchetypes ==
    /\ pc = "sync"
    /\ sync_call.n < 2
    /\ ed' = sync_archetypes(ed)
    /\ sync_call' = [sync_call EXCEPT !.n = @ + 1]
    /\ UNCHANGED run_vars

SyncNext == SyncArchetypes

\* The calls of _sync_archetypes on the given configurations.
SyncSpec == SyncInit /\ [][SyncNext]_vars

----------------------------------------------------------------------------
(* Properties.                                                             *)

\* The stage runs of a call, read when run returns: the log only grows
\* during a call, so every stage run of the call is in it then.
Entries == IF pc = "done" THEN {trace[k] : k \in 1 .. Len(trace)} ELSE {}

Recs == {records[k] : k \in 1 .. Len(records)}

EntryArch(e) == cfg.archetypes[e.a]

EntryStage(e) == cfg.pipeline_stages[e.i]

EntryDur(e) == EntryArch(e).stages[EntryStage(e)].duration_months

\* The sum of the series f over the months of the index that are in S.
SumOver(f, S) ==
    IF idx = {} THEN Zero
    ELSE SumRange(f, S, First(idx), First(idx) + Cardinality(idx) - 1)

\* A start the loops of the code treat as an event: not below the epsilon.
IsEvent(n) == ~RLt(n, Eps)

\* C1: in the two-stage scenario the weighted cost is 10, projects per year
\* are 10, Early has 2 effective projects in exactly Jan-Jun 2026, Late has 8
\* in Jan-Jun and 1 in Jul-Dec 2026, and no other month has a record.
C1_Scenario ==
    (cfg = ScenarioCfg /\ pc = "done") =>
        /\ weighted_cost_per_project(cfg) = R(10)
        /\ total_proj = R(10)
        /\ Len(records) = 18
        /\ {<<r.archetype, r.stage, r.month, r.effective_projects>> : r \in Recs}
           = {<<"A", "Early", Ts(2026, m), R(2)>> : m \in 1 .. 6}
             \cup {<<"A", "Late", Ts(2026, m), R(8)>> : m \in 1 .. 6}
             \cup {<<"A", "Late", Ts(2026, m), R(1)>> : m \in 7 .. 12}

C1_Witness == cfg = ScenarioCfg /\ pc = "done" /\ Len(records) = 18

\* An entry of a stage that directly follows a stage its archetype lacks.
AfterGap(e) ==
    /\ e.i > 1
    /\ cfg.pipeline_stages[e.i - 1] \notin DOMAIN EntryArch(e).stages

\* C2: a stage the archetype does not define emits no record, and the next
\* stage the archetype defines receives only its direct starts: nothing
\* converted from completions of the stages before the gap.
C2_GapSevers ==
    /\ \A r \in Recs :
          \A k \in 1 .. Len(cfg.archetypes) :
              cfg.archetypes[k].name = r.archetype
                  => r.stage \in DOMAIN cfg.archetypes[k].stages
    /\ \A e \in Entries : AfterGap(e) => e.starts = e.direct

\* A stage after a gap, where the stage before the gap had completions and
\* the conversion rate looked up for the gap stage is positive.
C2_Witness ==
    \E e \in Entries, p \in Entries :
        /\ AfterGap(e) /\ e.i = 3 /\ p.a = e.a /\ p.i = 1
        /\ RLt(Zero, Get(cfg.stage_conversion_rates, cfg.pipeline_stages[2]))
        /\ \E t \in idx : RLt(Zero, p.completions[t])
        /\ \E t \in idx : RLt(Zero, e.starts[t])

\* Every defined duration is at least 1 and the intake window is in 1..12.
FullRun ==
    /\ cfg.intake_spread_months \in 1 .. 12
    /\ \A k \in 1 .. Len(cfg.archetypes) :
          \A sn \in DOMAIN cfg.archetypes[k].stages :
              cfg.archetypes[k].stages[sn].duration_months >= 1

\* The start months whose duration window [m, m + duration) covers month t.
Window(e, t) == {m \in idx : m <= t /\ t < m + EntryDur(e)}

IsPred(p, e) == p.a = e.a /\ p.i + 1 = e.i

\* The conversion rate looked up for the stage before e's.
PrevConv(e) == Get(cfg.stage_conversion_rates, cfg.pipeline_stages[e.i - 1])

ClaimedShare(k, r) == IF k + 1 >= r THEN One ELSE Rat(k + 1, r)

\* The claimed ramped stock of month t from the cohorts in S.
RampedSum(e, t, S) ==
    SumOver([m \in S |-> RMul(e.starts[m], ClaimedShare(t - m, cfg.ramp_months))],
            S)

\* The entry's only start is the cohort of month m.
SingleCohort(e, m) ==
    /\ m \in idx
    /\ RLt(Zero, e.starts[m])
    /\ \A u \in idx \ {m} : e.starts[u] = Zero

DirectTotal(e) ==
    RMul(RMul(total_proj, EntryArch(e).portfolio_share),
         Get(cfg.stage_mix, EntryStage(e)))

IntakeYears == cfg.start_year .. cfg.end_year

\* C7: the direct starts of a defined stage are direct_total / intake_window
\* in each of the calendar months 1 .. intake_window of every year in
\* [start_year, end_year] and zero in every other month, so each intake
\* year's direct starts sum to direct_total.
C7_DirectStarts ==
    \A e \in Entries :
        /\ \A t \in idx :
              e.direct[t] =
                  IF YearOf(t) \in IntakeYears
                     /\ MonthOf(t) <= cfg.intake_spread_months
                  THEN RDiv(DirectTotal(e), R(cfg.intake_spread_months))
                  ELSE Zero
        /\ \A y \in IntakeYears :
              SumOver(e.direct, {t \in idx : YearOf(t) = y}) = DirectTotal(e)

\* Direct starts spread over several months of each of several years.
C7_Witness ==
    \E e \in Entries :
        /\ RLt(Zero, DirectTotal(e))
        /\ cfg.end_year > cfg.start_year
        /\ cfg.intake_spread_months \in 2 .. 11
        /\ RLt(Zero, e.direct[Ts(cfg.end_year, cfg.intake_spread_months)])

Stages == cfg.pipeline_stages

NumStages == Len(cfg.pipeline_stages)

\* The archetype defines parameters for stage i of the pipeline.
Defines(arch, i) == i \in 1 .. NumStages /\ Stages[i] \in DOMAIN arch.stages

StageCost(arch, i) == arch.stages[Stages[i]].cost_millions

\* The claimed expected cost of entering at stage i.
RECURSIVE ClaimedCost(_, _)
ClaimedCost(arch, i) ==
    IF ~Defines(arch, i) THEN Zero
    ELSE IF i = NumStages THEN StageCost(arch, i)
    ELSE RAdd(StageCost(arch, i),
              RMul(Get(cfg.stage_conversion_rates, Stages[i]),
                   ClaimedCost(arch, i + 1)))

ExpectedCost(arch, i) ==
    expected_cost_from_stage(arch, Stages, cfg.stage_conversion_rates, i)

\* C8: the expected cost from stage i is 0 past the last stage or at a stage
\* the archetype does not define, the stage's cost at the terminal stage, and
\* cost + conversion rate * expected cost of the next stage otherwise; a
\* stage followed by an undefined stage costs only its own cost.
C8_ExpectedCost ==
    pc # "start" =>
        \A k \in 1 .. Len(cfg.archetypes) :
            LET arch == cfg.archetypes[k] IN
            /\ \A i \in 1 .. (NumStages + 1) :
                  ExpectedCost(arch, i) = ClaimedCost(arch, i)
            /\ ExpectedCost(arch, NumStages + 1) = Zero
            /\ \A i \in 1 .. NumStages :
                  /\ ~Defines(arch, i) => ExpectedCost(arch, i) = Zero
                  /\ (Defines(arch, i) /\ ~Defines(arch, i + 1))
                        => ExpectedCost(arch, i) = StageCost(arch, i)

\* Three defined stages with positive conversion rates: the expected cost of
\* entering at the first stage includes both later stages.
C8_Witness ==
    /\ pc # "start"
    /\ NumStages = 3
    /\ \E k \in 1 .. Len(cfg.archetypes) :
          LET arch == cfg.archetypes[k] IN
          /\ \A i \in 1 .. 3 : Defines(arch, i)
          /\ RLt(Zero, Get(cfg.stage_conversion_rates, Stages[1]))
          /\ RLt(Zero, Get(cfg.stage_conversion_rates, Stages[2]))
          /\ RLt(RAdd(StageCost(arch, 1),
                      RMul(Get(cfg.stage_conversion_rates, Stages[1]),
                           StageCost(arch, 2))),
                 ExpectedCost(arch, 1))

\* The stages an archetype defines whose mix is positive.
EntryPoints(arch) ==
    {i \in 1 .. NumStages :
        Defines(arch, i) /\ RLt(Zero, Get(cfg.stage_mix, Stages[i]))}

\* The claimed mix-weighted cost of one archetype.
ClaimedArchCost(arch) ==
    SumRange([i \in 1 .. NumStages |->
                 RMul(Get(cfg.stage_mix, Stages[i]), ExpectedCost(arch, i))],
             EntryPoints(arch), 1, NumStages)

\* C9: the weighted cost per project is the sum over archetypes of
\* portfolio_share * (sum over the defined stages with positive mix of
\* mix * expected cost from that stage); it is 0 with no archetypes or with
\* every stage mix zero.
C9_WeightedCost ==
    pc # "start" =>
        /\ weighted_cost_per_project(cfg)
           = SumRange([k \in 1 .. Len(cfg.archetypes) |->
                          RMul(cfg.archetypes[k].portfolio_share,
                               ClaimedArchCost(cfg.archetypes[k]))],
                      1 .. Len(cfg.archetypes), 1, Len(cfg.archetypes))
        /\ (Len(cfg.archetypes) = 0
            \/ \A i \in 1 .. NumStages : Get(cfg.stage_mix, Stages[i]) = Zero)
               => weighted_cost_per_project(cfg) = Zero

\* Two archetypes with shares below 1, one of them lacking a stage whose mix
\* is positive.
C9_Witness ==
    /\ pc # "start"
    /\ Len(cfg.archetypes) = 2
    /\ RLt(Zero, weighted_cost_per_project(cfg))
    /\ \A k \in 1 .. 2 : RLt(cfg.archetypes[k].portfolio_share, One)
    /\ \E k \in 1 .. 2, i \in 1 .. NumStages :
          /\ ~Defines(cfg.archetypes[k], i)
          /\ RLt(Zero, Get(cfg.stage_mix, Stages[i]))
    /\ \E k \in 1 .. 2 : Cardinality(EntryPoints(cfg.archetypes[k])) >= 2

\* gross_budget * (1 - overhead)
NetBudget == RMul(cfg.total_budget_m, RSub(One, cfg.overhead_pct))

\* C10: projects per year times the weighted cost is the net budget
\* gross * (1 - overhead) when the weighted cost is positive, and projects per
\* year is 0 when the weighted cost is zero or negative.
C10_ProjectsPerYear ==
    pc # "start" =>
        LET wc == weighted_cost_per_project(cfg) IN
        /\ RLt(Zero, wc) => RMul(total_proj, wc) = NetBudget
        /\ RLe(wc, Zero) => total_proj = Zero

\* A positive volume bought from a budget reduced by overhead.
C10_Witness ==
    /\ pc # "start"
    /\ RLt(Zero, cfg.overhead_pct)
    /\ RLt(cfg.overhead_pct, One)
    /\ RLt(Zero, weighted_cost_per_project(cfg))
    /\ RLt(Zero, total_proj)

\* run_model has just computed the annual summary of the current call.
Summarised == pc = "summary"

\* run_model has returned.
Returned == pc = "returned"

HasRecords(y) == \E r \in Recs : r.year = y

ZeroRow(row) ==
    /\ row.avg_monthly_fte = Zero /\ row.min_monthly_fte = Zero
    /\ row.max_monthly_fte = Zero /\ row.avg_research_fte = Zero
    /\ row.avg_developer_fte = Zero

\* The summary has one row per year of [start_year, end_year], in order.
OneRowPerYear ==
    /\ Len(annual) = cfg.end_year - cfg.start_year + 1
    /\ \A k \in 1 .. Len(annual) : annual[k].Year = cfg.start_year + k - 1

\* C11 as stated: for every configuration the annual summary has exactly one
\* row per calendar year of [start_year, end_year], a year without monthly
\* records being an all-zero row.
C11_Stated ==
    Summarised =>
        /\ OneRowPerYear
        /\ \A k \in 1 .. Len(annual) :
              ~HasRecords(annual[k].Year) => ZeroRow(annual[k])

\* C11 (amended): when the monthly table has at least one record the annual
\* summary has exactly one row per calendar year of [start_year, end_year],
\* and a year without monthly records is an all-zero row; when the monthly
\* table is empty the annual summary has no rows at all.
C11_AnnualRows ==
    Summarised =>
        /\ records # <<>> =>
              /\ OneRowPerYear
              /\ \A k \in 1 .. Len(annual) :
                    ~HasRecords(annual[k].Year) => ZeroRow(annual[k])
        /\ records = <<>> => annual = <<>>

\* A non-empty monthly table with a year of records and a year without.
C11_Witness ==
    /\ Returned
    /\ Len(annual) = 2
    /\ ~HasRecords(annual[1].Year) /\ ZeroRow(annual[1])
    /\ HasRecords(annual[2].Year) /\ ~ZeroRow(annual[2])

\* The months of year y that have a record.
RecordMonths(y) == {r.month : r \in {q \in Recs : q.year = y}}

\* The sum of a column over all the records of month m.
MonthTotal(col, m) ==
    SumRange([k \in 1 .. Len(records) |-> records[k][col]],
             {k \in 1 .. Len(records) : records[k].month = m},
             1, Len(records))

\* The mean over the months of year y that have a record of their totals.
YearMean(col, y) ==
    RDiv(SumRange([m \in RecordMonths(y) |-> MonthTotal(col, m)],
                  RecordMonths(y), Ts(y, 1), Ts(y, 12)),
         R(Cardinality(RecordMonths(y))))

\* x is the least (greatest) monthly total of year y.
IsYearMin(x, col, y) ==
    /\ \E m \in RecordMonths(y) : x = MonthTotal(col, m)
    /\ \A m \in RecordMonths(y) : RLe(x, MonthTotal(col, m))

IsYearMax(x, col, y) ==
    /\ \E m \in RecordMonths(y) : x = MonthTotal(col, m)
    /\ \A m \in RecordMonths(y) : RLe(MonthTotal(col, m), x)

\* The year the steady state is read from.
SteadyYear ==
    IF HasRecords(cfg.end_year) THEN cfg.end_year ELSE cfg.end_year - 1

\* C12: the steady state is the mean, min and max over months of the
\* per-month sums of fte_total of the records of end_year, or of end_year - 1
\* when end_year has no records, and (0, 0, 0) when neither year has any.
C12_SteadyState ==
    Returned =>
        IF HasRecords(SteadyYear)
        THEN /\ steady[1] = YearMean("fte_total", SteadyYear)
             /\ IsYearMin(steady[2], "fte_total", SteadyYear)
             /\ IsYearMax(steady[3], "fte_total", SteadyYear)
        ELSE steady = <<Zero, Zero, Zero>>

\* end_year has no records and the year before has two months of records
\* with different totals.
C12_Witness ==
    /\ Returned
    /\ ~HasRecords(cfg.end_year)
    /\ HasRecords(cfg.end_year - 1)
    /\ RLt(steady[2], steady[1]) /\ RLt(steady[1], steady[3])

\* The stock of month t when no start is filtered: every start of the
\* window counts, with its ramp share when a ramp is configured.
UnfilteredActive(e, t) ==
    IF EntryDur(e) < 1 THEN Zero
    ELSE IF cfg.ramp_months > 0 THEN RampedSum(e, t, Window(e, t))
    ELSE SumOver(e.starts, Window(e, t))

\* The unfiltered stock of month t summed over all archetypes and stages.
UnfilteredTotal(t) ==
    SumRange([k \in 1 .. Len(trace) |-> UnfilteredActive(trace[k], t)],
             1 .. Len(trace), 1, Len(trace))

\* C13 as stated: epsilon suppression is presentation-only.  The effective
\* projects that feed the aggregation of a month are the stock of all starts
\* of that month's windows, none filtered, whether or not a record of the
\* month is shown; and every start, whatever its size, completes.
C13_Stated ==
    pc = "done" =>
        /\ \A t \in idx : MonthTotal("effective_projects", t) = UnfilteredTotal(t)
        /\ \A e \in Entries : \A t \in idx :
              t - EntryDur(e) \in idx
                  => e.completions[t] = e.starts[t - EntryDur(e)]

\* The entry of the stage run that emitted record r.
EmittedBy(r, e) ==
    /\ EntryArch(e).name = r.archetype
    /\ EntryStage(e) = r.stage

\* The utilization divisor: max(utilization_rate, 0.01).
Divisor == RMax(cfg.utilization_rate, UtilFloor)

\* C14: every monthly record has effective_projects equal to its stage's
\* active stock of that month, fte_research and fte_developer equal to
\* effective_projects times the stage's FTE per project divided by
\* u = max(utilization_rate, 0.01), which is never zero, and fte_total equal
\* to their sum.
C14_RecordFte ==
    /\ RLt(Zero, Divisor)
    /\ pc = "done" =>
          \A r \in Recs :
              \E e \in Entries :
                  LET sp == EntryArch(e).stages[EntryStage(e)] IN
                  /\ EmittedBy(r, e)
                  /\ r.month \in idx
                  /\ r.effective_projects = e.active[r.month]
                  /\ r.fte_research
                     = RDiv(RMul(r.effective_projects, sp.fte_research),
                            Divisor)
                  /\ r.fte_developer
                     = RDiv(RMul(r.effective_projects, sp.fte_developer),
                            Divisor)
                  /\ r.fte_total = RAdd(r.fte_research, r.fte_developer)

\* A record emitted under a utilization rate of zero: the divisor is 0.01.
C14_Witness ==
    /\ pc = "done"
    /\ cfg.utilization_rate = Zero
    /\ \E r \in Recs :
          /\ RLt(Zero, r.fte_research)
          /\ r.fte_research = RMul(r.effective_projects, R(UtilFloorDen))

\* v is x rounded to one decimal: a multiple of 0.1 within 0.05 of x.
IsRounded(v, x) ==
    /\ RMul(v, R(10))[2] = 1
    /\ RLe(RSub(v, x), Rat(1, 20))
    /\ RLe(RSub(x, v), Rat(1, 20))

YearMin(col, y) ==
    CHOOSE x \in {MonthTotal(col, m) : m \in RecordMonths(y)} :
        IsYearMin(x, col, y)

YearMax(col, y) ==
    CHOOSE x \in {MonthTotal(col, m) : m \in RecordMonths(y)} :
        IsYearMax(x, col, y)

\* C15: for each year of [start_year, end_year] that has records, the row's
\* average, minimum and maximum monthly FTE are the mean, the least and the
\* greatest of the per-month sums of fte_total over all archetypes and
\* stages, and its average research and developer FTE are the means of the
\* per-month sums of fte_research and fte_developer, each rounded to one
\* decimal.
C15_AnnualStats ==
    Summarised =>
        \A k \in 1 .. Len(annual) :
            LET row == annual[k]
                y == row.Year
            IN HasRecords(y) =>
                /\ y \in IntakeYears
                /\ IsRounded(row.avg_monthly_fte, YearMean("fte_total", y))
                /\ IsRounded(row.min_monthly_fte, YearMin("fte_total", y))
                /\ IsRounded(row.max_monthly_fte, YearMax("fte_total", y))
                /\ IsRounded(row.avg_research_fte, YearMean("fte_research", y))
                /\ IsRounded(row.avg_developer_fte,
                             YearMean("fte_developer", y))

\* A year whose months differ and whose mean is not a multiple of 0.1, with
\* two records summed in one of its months.
C15_Witness ==
    /\ Summarised
    /\ \E k \in 1 .. Len(annual) :
          LET row == annual[k]
              y == row.Year
          IN /\ HasRecords(y)
             /\ RLt(row.min_monthly_fte, row.avg_monthly_fte)
             /\ RLt(row.avg_monthly_fte, row.max_monthly_fte)
             /\ row.avg_monthly_fte # YearMean("fte_total", y)
             /\ row.avg_research_fte # row.avg_developer_fte
             /\ \E m \in RecordMonths(y) :
                   Cardinality({j \in 1 .. Len(records) :
                                   records[j].month = m}) >= 2

\* No archetype, or every portfolio share zero, or an overhead of 100%.
ZeroVolume ==
    \/ Len(cfg.archetypes) = 0
    \/ \A k \in 1 .. Len(cfg.archetypes) :
          cfg.archetypes[k].portfolio_share = Zero
    \/ cfg.overhead_pct = One

\* C16: with no archetype, or every portfolio share zero, or overhead 1.0,
\* run_model computes projects_per_year = 0 (no division by a zero weighted
\* cost), an empty monthly table, an empty annual table and the steady state
\* (0, 0, 0).
C16_ZeroVolume ==
    ZeroVolume =>
        /\ pc # "start" => (total_proj = Zero /\ records = <<>>)
        /\ Summarised => annual = <<>>
        /\ Returned => steady = <<Zero, Zero, Zero>>

\* run_model has returned for a full-overhead configuration whose archetype
\* has a positive share and a positive cost.
C16_Witness ==
    /\ Returned
    /\ cfg.overhead_pct = One
    /\ Len(cfg.archetypes) = 1
    /\ cfg.archetypes[1].portfolio_share = One
    /\ RLt(Zero, weighted_cost_per_project(cfg))
    /\ Len(trace) = 2

\* The sum of f(k) over k in 1 .. n.
SumSeq(f, n) == SumRange(f, 1 .. n, 1, n)

\* Exactly one pipeline stage, taking the whole mix, and portfolio shares
\* that sum to 1.
SingleStageFullMix ==
    /\ NumStages = 1
    /\ Get(cfg.stage_mix, Stages[1]) = One
    /\ SumSeq([k \in 1 .. Len(cfg.archetypes) |->
                  cfg.archetypes[k].portfolio_share],
              Len(cfg.archetypes)) = One

\* effective_projects summed over all records.
TotalEffective ==
    SumSeq([k \in 1 .. Len(records) |-> records[k].effective_projects],
           Len(records))

NumIntakeYears == cfg.end_year - cfg.start_year + 1

\* projects_per_year x share x duration of archetype k's cohort of one
\* intake year (nothing for an archetype that lacks the stage).
CohortStock(k) ==
    LET arch == cfg.archetypes[k] IN
    IF Defines(arch, 1)
    THEN RMul(RMul(total_proj, arch.portfolio_share),
              R(arch.stages[Stages[1]].duration_months))
    ELSE Zero

\* The monthly direct start of archetype k at the single stage.
MonthlyStart(k) ==
    RDiv(RMul(total_proj, cfg.archetypes[k].portfolio_share),
         R(cfg.intake_spread_months))

\* C17 as stated: with one stage and mix 1.0, whatever the ramp and the size
\* of the starts, the effective projects of the whole run total
\* (number of intake years) x projects_per_year x duration, share-weighted
\* over the archetypes.
C17_Stated ==
    (pc = "done" /\ SingleStageFullMix) =>
        TotalEffective
        = RMul(R(NumIntakeYears),
               SumSeq([k \in 1 .. Len(cfg.archetypes) |-> CohortStock(k)],
                      Len(cfg.archetypes)))

\* C17 (amended): with one stage, mix 1.0 and ramp_months <= 1, every stage
\* run's stock summed over the months is (number of intake years) x
\* projects_per_year x share x duration when the archetype's monthly start
\* is at least 1e-9 and 0 when it is smaller, and the effective projects of
\* all records total the sum of these over the archetypes.
C17_Conservation ==
    (pc = "done" /\ SingleStageFullMix /\ cfg.ramp_months <= 1) =>
        /\ \A e \in Entries :
              SumOver(e.active, idx)
              = IF IsEvent(MonthlyStart(e.a))
                THEN RMul(R(NumIntakeYears), CohortStock(e.a))
                ELSE Zero
        /\ TotalEffective
           = RMul(R(NumIntakeYears),
                  SumSeq([k \in 1 .. Len(cfg.archetypes) |->
                             IF IsEvent(MonthlyStart(k))
                             THEN CohortStock(k) ELSE Zero],
                         Len(cfg.archetypes)))

\* Two archetypes of different durations, two intake years whose cohorts
\* overlap in a month, and a positive total.
C17_Witness ==
    /\ pc = "done" /\ SingleStageFullMix /\ cfg.ramp_months <= 1
    /\ Len(cfg.archetypes) = 2
    /\ NumIntakeYears >= 2
    /\ cfg.intake_spread_months = 12
    /\ CohortStock(1) # CohortStock(2)
    /\ \A k \in 1 .. 2 : RLt(Zero, CohortStock(k))
    /\ RLt(Zero, TotalEffective)

C19_ZeroDuration ==
    \A e \in Entries :
        EntryDur(e) < 1 =>
            /\ \A t \in idx : e.active[t] = Zero
            /\ ~\E r \in Recs : EmittedBy(r, e)

\* A stage of duration below 1 with a ramp configured and starts of at
\* least 1e-9, in a run whose other stage has emitted records.
C19_Witness ==
    /\ pc = "done"
    /\ cfg.ramp_months > 0
    /\ Recs # {}
    /\ \E e \in Entries :
          /\ EntryDur(e) < 1
          /\ \E m \in idx : IsEvent(e.starts[m])
          /\ \A t \in idx : e.active[t] = Zero

\* The month index run would build if archetype k were the only archetype.
OwnIndex(k) ==
    Ts(cfg.start_year, 1)
    .. (Ts(cfg.end_year, 12)
        + Max2(0, arch_dur(cfg.archetypes[k], cfg.pipeline_stages)))

\* The records of archetype k computed on its own: with its project volume
\* and the shared scalars of this run, and its own month index.
SoloRecords(k) ==
    run_archetype_from(cfg, cfg.archetypes[k],
                       RMul(total_proj, cfg.archetypes[k].portfolio_share),
                       OwnIndex(k), utilization, 1, NoSeries)

\* The records of the run that belong to archetype k.
RecordsOf(k) ==
    SelectSeq(records, LAMBDA r : r.archetype = cfg.archetypes[k].name)

\* C20: the records the run emits for an archetype are those the archetype
\* gives on its own, with its project volume and the shared scalars held
\* fixed, whatever other archetypes are present and however they lengthen
\* the month index; and each month's FTE total that feeds the annual and
\* steady-state figures is the sum of the totals of each archetype's records.
C20_Independent ==
    pc = "done" =>
        /\ \A k \in 1 .. Len(cfg.archetypes) : RecordsOf(k) = SoloRecords(k)
        /\ \A t \in idx :
              MonthTotal("fte_total", t)
              = SumSeq([k \in 1 .. Len(cfg.archetypes) |->
                           group_sum(RecordsOf(k), "fte_total", t, 1,
                                     Len(RecordsOf(k)))],
                       Len(cfg.archetypes))

\* Two archetypes, the second lengthening the month index beyond the first's
\* own, with records of both in one month and a record of the second in a
\* month outside the first's own index.
C20_Witness ==
    /\ pc = "done"
    /\ Len(cfg.archetypes) = 2
    /\ OwnIndex(1) # idx
    /\ OwnIndex(2) = idx
    /\ RecordsOf(1) # <<>>
    /\ \E r \in Recs, q \in Recs :
          /\ r.archetype = cfg.archetypes[1].name
          /\ q.archetype = cfg.archetypes[2].name
          /\ r.month = q.month
    /\ \E q \in Recs :
          /\ q.archetype = cfg.archetypes[2].name
          /\ q.month \notin OwnIndex(1)

\* The records the stage run e has emitted.
EntryRecords(e) == SelectSeq(records, LAMBDA r : EmittedBy(r, e))

\* The months in which the stock of the stage run e is at least 1e-9.
StockMonths(e) == {t \in idx : IsEvent(e.active[t])}

\* The stage of e has zero mix and no conversion inflow: it is the first
\* stage, or follows a gap, or the rate of the stage before is zero.
NoInflow(e) ==
    /\ Get(cfg.stage_mix, EntryStage(e)) = Zero
    /\ (e.i = 1 \/ AfterGap(e) \/ PrevConv(e) = Zero)

\* C21: the monthly table has exactly one record for each (archetype, stage,
\* month) whose active stock is at least 1e-9 and no record for any other
\* triple; a stage with zero mix and zero inbound conversion has no records;
\* every record has effective_projects > 0 and a month inside the index.
C21_OneRecordPerTriple ==
    pc = "done" =>
        /\ \A e \in Entries :
              /\ {r.month : r \in Range(EntryRecords(e))} = StockMonths(e)
              /\ Len(EntryRecords(e)) = Cardinality(StockMonths(e))
              /\ NoInflow(e) => EntryRecords(e) = <<>>
        /\ \A r \in Recs :
              /\ \E e \in Entries : EmittedBy(r, e)
              /\ r.month \in idx
              /\ RLt(Zero, r.effective_projects)

\* A run with a stage of zero mix and zero inbound conversion that has no
\* record, and a stage whose stock is positive but below 1e-9 in one month
\* (no record) and at least 1e-9 in another (one record).
C21_Witness ==
    /\ pc = "done"
    /\ \E e \in Entries : NoInflow(e) /\ EntryRecords(e) = <<>>
    /\ \E e \in Entries :
          /\ \E t \in idx : RLt(Zero, e.active[t]) /\ ~IsEvent(e.active[t])
          /\ Len(EntryRecords(e)) >= 1

\* The value of the series f at month t, nothing outside the index.
At(f, t) == IF t \in idx THEN f[t] ELSE Zero

\* A start as the loops of the code see it: nothing when below the epsilon.
Ev(n) == IF IsEvent(n) THEN n ELSE Zero

\* Three consecutive stage runs of one archetype.
Chain3(a, b, c) == IsPred(a, b) /\ IsPred(b, c)

NoSmallStart ==
    \A e \in Entries : \A t \in idx : e.starts[t] = Zero \/ IsEvent(e.starts[t])

\* The cost of all the starts of the run: starts (direct plus converted)
\* times the stage's cost, over all archetypes, stages and months.
StartedCost ==
    SumSeq([k \in 1 .. Len(trace) |->
               RMul(SumOver(trace[k].starts, idx),
                    EntryArch(trace[k]).stages[EntryStage(trace[k])]
                        .cost_millions)],
           Len(trace))

\* C25: when the weighted cost is positive, the intake window is in 1..12,
\* the durations are at least 1 and no start is below 1e-9, the starts of
\* the whole run, each times its stage's cost, total the net budget times
\* the number of intake years.
C25_BudgetSpent ==
    (/\ pc = "done"
     /\ RLt(Zero, weighted_cost_per_project(cfg))
     /\ FullRun
     /\ NoSmallStart)
        => StartedCost = RMul(NetBudget, R(NumIntakeYears))

\* Two archetypes over three stages, one of them with a gap, and a stage
\* whose starts exceed its direct starts by the conversion inflow.
C25_Witness ==
    /\ pc = "done"
    /\ RLt(Zero, weighted_cost_per_project(cfg))
    /\ FullRun
    /\ NoSmallStart
    /\ Len(cfg.archetypes) = 2
    /\ NumStages = 3
    /\ \E e \in Entries : AfterGap(e)
    /\ \E e \in Entries : \E t \in idx : RLt(e.direct[t], e.starts[t])
    /\ StartedCost = RMul(NetBudget, R(NumIntakeYears))
    /\ RLt(Zero, StartedCost)

\* C26: in a run whose durations are at least 1 and whose intake window is
\* in 1..12, no record has a month before January of start_year, and in the
\* last month of the index (December of end_year plus the tail) no stage of
\* any archetype has stock or a record: every cohort has finished.
C26_Drains ==
    (pc = "done" /\ FullRun) =>
        /\ \A r \in Recs :
              /\ r.month >= Ts(cfg.start_year, 1)
              /\ r.month < Ts(cfg.end_year, 12) + tail_months(cfg)
        /\ \A e \in Entries : e.active[Last(idx)] = Zero

\* Projects start in every month of the year; a cohort of December of
\* end_year is active in the month before the last of the index, and
\* nothing is active in the last.
C26_Witness ==
    /\ pc = "done" /\ FullRun
    /\ cfg.intake_spread_months = 12
    /\ Last(idx) = Ts(cfg.end_year, 12) + tail_months(cfg)
    /\ \E r \in Recs : r.month = Last(idx) - 1
    /\ \E r \in Recs : r.month = Ts(cfg.start_year, 1)
    /\ \A e \in Entries : e.active[Last(idx)] = Zero

\* _active_stock on the starts, duration and index of the stage run e, with
\* a ramp of r months.
StockWithRamp(e, r) == active_stock(e.starts, EntryDur(e), idx, r)

\* C28: on the starts series, duration and index of every stage run,
\* _active_stock with ramp_months = 1 returns the same series as with
\* ramp_months = 0, and the series of a run with ramp_months > 1 is pointwise
\* less than or equal to the no-ramp series.
C28_RampOne ==
    \A e \in Entries :
        /\ StockWithRamp(e, 1) = StockWithRamp(e, 0)
        /\ cfg.ramp_months > 1 =>
              \A t \in idx : RLe(e.active[t], StockWithRamp(e, 0)[t])

\* A run with ramp_months > 1 and a stage of two months or more: the ramped
\* stock is below the no-ramp stock in one month and equal to it in another,
\* and the stock with ramp_months = 1 is the non-zero no-ramp stock.
C28_Witness ==
    /\ cfg.ramp_months > 1
    /\ \E e \in Entries :
          /\ EntryDur(e) >= 2
          /\ e.active = StockWithRamp(e, cfg.ramp_months)
          /\ \E t \in idx : RLt(e.active[t], StockWithRamp(e, 0)[t])
          /\ \E t \in idx : /\ RLt(Zero, e.active[t])
                             /\ e.active[t] = StockWithRamp(e, 0)[t]
          /\ StockWithRamp(e, 1) = StockWithRamp(e, 0)
          /\ \E t \in idx : RLt(Zero, StockWithRamp(e, 1)[t])

\* What the expected cost of entering at the stage of e adds to the stage's
\* own cost: the rate times the expected cost of the next stage.
CostBeyond(e) ==
    IF e.i < NumStages /\ RLt(Zero, Get(cfg.stage_conversion_rates, EntryStage(e)))
    THEN RMul(Get(cfg.stage_conversion_rates, EntryStage(e)),
              ExpectedCost(EntryArch(e), e.i + 1))
    ELSE Zero

YearSum(col, y) ==
    SumRange([k \in 1 .. Len(records) |-> records[k][col]],
             {k \in 1 .. Len(records) : records[k].year = y},
             1, Len(records))

\* The number of distinct months of year y that have a record.
NumRecordMonths(y) == Cardinality(RecordMonths(y))

IntakeRecords == SelectSeq(records, LAMBDA r : r.year <= cfg.end_year)

\* The annual row of end_year shows the steady state rounded to one decimal.
LastRowIsSteady ==
    HasRecords(cfg.end_year) =>
        /\ annual # <<>>
        /\ LET row == annual[Len(annual)] IN
           /\ row.Year = cfg.end_year
           /\ row.avg_monthly_fte = round_1(steady[1])
           /\ row.min_monthly_fte = round_1(steady[2])
           /\ row.max_monthly_fte = round_1(steady[3])

RECURSIVE FirstOccurrences(_)
FirstOccurrences(seq) ==
    IF seq = <<>> THEN <<>>
    ELSE LET front == FirstOccurrences(SubSeq(seq, 1, Len(seq) - 1))
             last == seq[Len(seq)]
         IN IF last \in Range(front) THEN front ELSE Append(front, last)

\* The stage list of the editor is never empty.
StageListNonEmpty == pc = "configure" => Len(ed.pipeline_stages) >= 1

\* C23 (as stated): after any sequence of renames, removals and additions in
\* the configuration editor, the stage list holds no name twice and is not
\* empty.
C23_Stated ==
    pc = "configure" =>
        /\ Len(ed.pipeline_stages) >= 1
        /\ \A i \in 1 .. Len(ed.pipeline_stages),
              j \in 1 .. Len(ed.pipeline_stages) :
                ed.pipeline_stages[i] = ed.pipeline_stages[j] => i = j

\* The keys of a dict, in its order.
KeyOrder(d) == [j \in 1 .. Len(d) |-> d[j][1]]

\* C24: after _sync_archetypes(cfg) every archetype has parameters for
\* exactly the stages of cfg.pipeline_stages, in pipeline order; a stage the
\* archetype had keeps its parameters, a stage it lacked has the default
\* parameters, a key outside the pipeline is gone, nothing else of the
\* configuration has changed, and a second call changes nothing.
C24_Synced ==
    (pc = "sync" /\ sync_call.n >= 1) =>
        /\ ed.pipeline_stages = sync_call.arg.pipeline_stages
        /\ ed.stage_mix = sync_call.arg.stage_mix
        /\ ed.stage_conversion_rates = sync_call.arg.stage_conversion_rates
        /\ Len(ed.archetypes) = Len(sync_call.arg.archetypes)
        /\ \A k \in 1 .. Len(ed.archetypes) :
             LET now == ed.archetypes[k].stages
                 was == sync_call.arg.archetypes[k].stages
             IN /\ ed.archetypes[k].name = sync_call.arg.archetypes[k].name
                /\ ed.archetypes[k].portfolio_share
                       = sync_call.arg.archetypes[k].portfolio_share
                /\ KeyOrder(now) = FirstOccurrences(ed.pipeline_stages)
                /\ \A s \in DictKeys(now) :
                     DictGet(now, s) = IF s \in DictKeys(was)
                                       THEN DictGet(was, s)
                                       ELSE DefaultParams
        /\ sync_archetypes(ed) = ed

\* Witness of C24: after the second call, on an archetype that had a key
\* outside the pipeline, lacked a stage of the pipeline and held two stages
\* of the pipeline in the other order.
C24_Witness ==
    /\ pc = "sync"
    /\ sync_call.n = 2
    /\ ed.pipeline_stages = <<"Early", "Late", "Final">>
    /\ KeyOrder(sync_call.arg.archetypes[1].stages) = <<"Pilot", "Final", "Early">>
    /\ KeyOrder(ed.archetypes[1].stages) = <<"Early", "Late", "Final">>
    /\ DictGet(ed.archetypes[1].stages, "Late") = DefaultParams
    /\ DictGet(ed.archetypes[1].stages, "Final")
           = DictGet(sync_call.arg.archetypes[1].stages, "Final")
    /\ DictGet(ed.archetypes[1].stages, "Final") # DefaultParams

====
